---- MODULE Spec2Model ----
(***************************************************************************)
(* Model of the connection pool of the ingestion pipeline:                 *)
(* PostgresDB (src/src/db/postgres_db.py), a semaphore-gated wrapper of    *)
(* psycopg2's ThreadedConnectionPool, used by several threads.             *)
(*                                                                         *)
(* Every method is split at the points where CPython can switch threads:   *)
(* each read of a shared attribute (self._pool), each call into the        *)
(* semaphore, the lock or the underlying pool is one step.  The underlying *)
(* pool's getconn/putconn/closeall run under that pool's own lock and are  *)
(* therefore single steps.  There is one pool object, so the position of a *)
(* thread records which object its read of self._pool returned.            *)
(*                                                                         *)
(* Specifications:                                                         *)
(*   Spec       threads calling get_connection, release_connection and     *)
(*              close_pool on a constructed pool;                          *)
(*   SpecCtor   threads calling PostgresDB(...) and get_instance();        *)
(*   SpecScope  ManagedConnection scopes, with callers that close the pool;*)
(*   SpecEvents on_created of the two event handlers;                      *)
(*   SpecMerge  merge_tables applied to successive batches;                *)
(*   SpecFile   successive process_file calls on one entity's tables;      *)
(*   SpecScenario  process_file on the files A, A, B, C of the scenario;   *)
(*   SpecDaemon one daemon: its watch loop, its dispatcher and an interrupt;*)
(*   SpecRestart  process_file calls and set_up_tables of a restart;       *)
(*   SpecWorkers, FairWorkers  worker threads with one with-block each;    *)
(*   SpecLegacy the legacy OrderProcessor.process_file;                    *)
(*   SpecMisuse callers that release a connection more than once;          *)
(*   SpecLive   callers on a pool that is never closed;                    *)
(*   SpecReopen close_pool followed by a new construction.                 *)
(***************************************************************************)
EXTENDS Integers, Sequences, FiniteSets, TLC

\* ---- bounds ----
\* number of threads that use the pool
NumThreads == 2
\* largest max_conn the pool is constructed with
MaxConn == 2
\* number of primary keys, of values of the non-key columns, of timestamps
NumKeys == 2
NumVals == 2
MaxTime == 2
\* number of process_file calls
MaxRuns == 2
\* number of file-creation events a watcher sees
MaxEvents == 2
\* number of underlying pools installed on the singleton, the first included
MaxOpens == 2

\* min_conn of the pool under test
MinConn == 1

Threads == 1..NumThreads
NoConn == 0
\* identities of connection objects; a fresh object differs from every
\* object that is still referenced by the pool or by a caller
ConnIds == 1..(MaxConn + NumThreads)

VARIABLES
    self_pool,          \* PostgresDB._pool: "pool" (the pool object) or "None"
    self_initialized,   \* PostgresDB._initialized
    semaphore,          \* value of PostgresDB._semaphore
    lock,               \* holder of PostgresDB._lock, 0 when free
    pool,               \* the ThreadedConnectionPool object
    pc,                 \* per thread: position in the method it executes
    op,                 \* per thread: the method called last ("none" before)
    held,               \* per thread: the connection the caller holds
    err,                \* per thread: exception in flight, "none" if none
    res,                \* per thread: outcome of the last finished call
    net,                \* per thread: permits taken minus released by the current call
    blocked,            \* per thread: the current get_connection found no permit free
    closers,            \* number of closeall() calls that closed the underlying pool
    \* -- construction of the singleton --
    cls_instance,       \* PostgresDB._instance: 0 (None) or the instance object
    details,            \* dbname/user/host/port stored on the instance
    created,            \* objects created so far: instances and underlying pools
    args,               \* per thread: arguments of the PostgresDB(...) call
    ret,                \* per thread: object returned by PostgresDB(...) / get_instance()
    \* -- ManagedConnection scopes and file-creation events --
    scope,              \* per thread: state of the with-block / on_created call
    daemon,             \* Daemon.run, its Observer and the events of its watch
    \* -- the store, as seen through one entity's processor --
    staging,            \* Staging relation (tmp table), key -> row
    manifest,           \* Manifest relation: the digests recorded
    target,             \* Target relation, key -> row
    run,                \* the process_file call in progress or finished last
    seen,               \* per key: the newest of the rows merged so far (or found in Target)
    did,                \* what the last merge did: which of insert, update, keep
    runs                \* number of process_file calls started

poolVars == <<self_pool, self_initialized, semaphore, lock, pool, pc, op, held,
              err, res, net, blocked, closers>>
ctorVars == <<cls_instance, details, created, args, ret>>
scopeVars == <<scope, daemon>>
fileVars == <<staging, manifest, target, run, seen, did, runs>>

vars == <<poolVars, ctorVars, scopeVars, fileVars>>

Min(S) == CHOOSE x \in S : \A y \in S : x <= y
Range(f) == {f[i] : i \in DOMAIN f}

\* ---- threading.Semaphore ----
Semaphore(value) == value

\* acquire(blocking=False) used as if it always succeeded
Semaphore_acquire_nonblocking(s) == [ok |-> TRUE, value |-> IF s > 0 THEN s - 1 ELSE s]

\* acquire(): may proceed only when the value is positive, then decrements
Semaphore_acquire(s) == [ok |-> s > 0, value |-> s - 1]

\* release(): increments, no upper bound (not a BoundedSemaphore)
Semaphore_release(s) == s + 1

\* ---- psycopg2.pool.ThreadedConnectionPool ----
\* free: the list of idle connections (pop() takes the last one);
\* used: the connections handed out and not yet put back.
ThreadedConnectionPool(minconn, maxconn) ==
    [closed |-> FALSE,
     minconn |-> minconn,
     maxconn |-> maxconn,
     free |-> [i \in 1..minconn |-> i],
     used |-> {}]

\* connection objects referenced by the pool or by some caller
Live == Range(pool.free) \cup pool.used \cup (Range(held) \ {NoConn})

\* getconn() that reads the last idle connection without removing it
getconn_nopop(p, live) ==
    IF p.closed
    THEN {[pool |-> p, result |-> "PoolClosed", conn |-> NoConn]}
    ELSE IF Len(p.free) > 0
    THEN LET c == p.free[Len(p.free)] IN
         {[pool |-> [p EXCEPT !.used = p.used \cup {c}],
           result |-> "conn", conn |-> c]}
    ELSE IF Cardinality(p.used) = p.maxconn
    THEN {[pool |-> p, result |-> "PoolExhausted", conn |-> NoConn]}
    ELSE LET c == Min(ConnIds \ live) IN
         {[pool |-> [p EXCEPT !.used = p.used \cup {c}],
           result |-> "conn", conn |-> c],
          [pool |-> p, result |-> "OperationalError", conn |-> NoConn]}

\* getconn(): the set of possible outcomes [pool, result, conn].
\* live: the connection objects that exist (a new one differs from them).
getconn(p, live) ==
    IF p.closed
    THEN {[pool |-> p, result |-> "PoolClosed", conn |-> NoConn]}
    ELSE IF Len(p.free) > 0
    THEN LET c == p.free[Len(p.free)] IN
         {[pool |-> [p EXCEPT !.free = SubSeq(p.free, 1, Len(p.free) - 1),
                              !.used = p.used \cup {c}],
           result |-> "conn", conn |-> c]}
    ELSE IF Cardinality(p.used) = p.maxconn
    THEN {[pool |-> p, result |-> "PoolExhausted", conn |-> NoConn]}
    ELSE LET c == Min(ConnIds \ live) IN
         \* _connect(): opens a new connection, or the server refuses
         {[pool |-> [p EXCEPT !.used = p.used \cup {c}],
           result |-> "conn", conn |-> c],
          [pool |-> p, result |-> "OperationalError", conn |-> NoConn]}

\* putconn(conn): the set of possible outcomes [pool, result].
\* Every raise happens before the connection is removed from used.
putconn(p, c) ==
    IF p.closed
    THEN {[pool |-> p, result |-> "PoolClosed"]}
    ELSE IF c \notin p.used
    THEN {[pool |-> p, result |-> "PoolUnkeyed"]}
    ELSE IF Len(p.free) < p.minconn
    THEN {\* idle (or rolled back) connection goes back to the free list
          [pool |-> [p EXCEPT !.free = Append(p.free, c),
                              !.used = p.used \ {c}],
           result |-> "ok"],
          \* broken connection is closed and dropped
          [pool |-> [p EXCEPT !.used = p.used \ {c}], result |-> "ok"],
          \* conn.rollback() raises: nothing was put back
          [pool |-> p, result |-> "RollbackError"]}
    ELSE {[pool |-> [p EXCEPT !.used = p.used \ {c}], result |-> "ok"]}

\* closeall(): closes every connection and marks the pool closed
closeall(p) ==
    IF p.closed
    THEN [pool |-> p, result |-> "PoolClosed"]
    ELSE [pool |-> [p EXCEPT !.closed = TRUE], result |-> "ok"]

\* ---- initial state: after PostgresDB(..., min_conn=MinConn, max_conn=n) ----
\* __init__: the semaphore and the underlying pool get the same max_conn
\* ---- the relations of one entity ----
Keys == 1..NumKeys
Vals == 1..NumVals
Times == 1..MaxTime

\* a row without its key: the non-key columns, and processed_at
Rows == [val : Vals, at : Times]

\* a relation with a primary key: at most one row per key
Relations == UNION {[D -> Rows] : D \in SUBSET Keys}

\* the singleton has been constructed once, by PostgresDB(dbname, ..., max_conn)
Constructed ==
    /\ cls_instance = 1
    /\ details = "db1"
    /\ created = [instances |-> 1, pools |-> 1]
    /\ args = [t \in Threads |-> [dbname |-> "db1", max_conn |-> MinConn]]
    /\ ret = [t \in Threads |-> 0]

\* a daemon whose run() has not been called: main is the position of run(),
\* stopped the stop event of the Observer, thread the state of its dispatcher
\* thread, queue its event queue; arrived, cur, started, finished and inflight
\* record the events seen, in on_created, handed over and ended, and the
\* event that was in on_created when the interrupt came
NoDaemon ==
    [kind |-> "data", main |-> "none", stopped |-> FALSE, thread |-> "none",
     queue |-> << >>, arrived |-> 0, cur |-> 0, started |-> << >>,
     finished |-> << >>, inflight |-> 0]

\* no with-block or on_created call is in progress and no daemon runs
NoScope ==
    /\ scope = [t \in Threads |->
                   [kind |-> "with", phase |-> "none", acquired |-> FALSE, body |-> "none",
                    calls |-> 0, rel |-> "none", exc |-> "none", bal |-> 0]]
    /\ daemon = NoDaemon

\* no file is being processed and the tables are empty
NoFile ==
    /\ staging = << >>
    /\ manifest = << >>
    /\ target = << >>
    /\ run = [pc |-> "idle"]
    /\ seen = [k \in Keys |-> {}]
    /\ did = {}
    /\ runs = 0

Init ==
    /\ Constructed
    /\ NoScope
    /\ NoFile
    /\ self_pool = "pool"
    /\ self_initialized = TRUE
    /\ lock = 0
    /\ \E n \in MinConn..MaxConn :
          /\ semaphore = Semaphore(n)
          /\ pool = ThreadedConnectionPool(MinConn, n)
    /\ pc = [t \in Threads |-> "idle"]
    /\ op = [t \in Threads |-> "none"]
    /\ held = [t \in Threads |-> NoConn]
    /\ err = [t \in Threads |-> "none"]
    /\ res = [t \in Threads |-> "none"]
    /\ net = [t \in Threads |-> 0]
    /\ blocked = [t \in Threads |-> FALSE]
    /\ closers = 0

\* ---- get_connection() ----
\* entry of get_connection(): the caller holds no connection
BeginGet(t) ==
    /\ pc[t] = "idle"
    /\ held[t] = NoConn
    /\ pc' = [pc EXCEPT ![t] = "gc_check"]
    /\ op' = [op EXCEPT ![t] = "get"]
    /\ res' = [res EXCEPT ![t] = "none"]
    /\ err' = [err EXCEPT ![t] = "none"]
    /\ net' = [net EXCEPT ![t] = 0]
    /\ blocked' = [blocked EXCEPT ![t] = FALSE]
    /\ UNCHANGED <<self_pool, self_initialized, semaphore, lock, pool, held, closers>>

\* a caller that holds no connection calls get_connection()
CallGet(t) ==
    /\ BeginGet(t)
    /\ UNCHANGED <<ctorVars, scopeVars, fileVars>>

\* get_connection() without the check of self._pool
GcCheckTarget_nocheck(p) == "gc_acquire"

\* if not self._pool: raise ConnectionError("Pool not initialised.")
GcCheckTarget(p) == IF p = "None" THEN "raise" ELSE "gc_acquire"

GcCheck(t) ==
    /\ pc[t] = "gc_check"
    /\ IF GcCheckTarget(self_pool) = "raise"
       THEN /\ pc' = [pc EXCEPT ![t] = "idle"]
            /\ res' = [res EXCEPT ![t] = "ConnectionError"]
       ELSE /\ pc' = [pc EXCEPT ![t] = GcCheckTarget(self_pool)]
            /\ UNCHANGED res
    /\ UNCHANGED <<self_pool, self_initialized, semaphore, lock, pool, op, held,
                   err, net, blocked, closers>>
    /\ UNCHANGED <<ctorVars, scopeVars, fileVars>>

\* self._semaphore.acquire() finds no permit: the thread waits
GcWait(t) ==
    /\ pc[t] = "gc_acquire"
    /\ ~Semaphore_acquire(semaphore).ok
    /\ ~blocked[t]
    /\ blocked' = [blocked EXCEPT ![t] = TRUE]
    /\ UNCHANGED <<self_pool, self_initialized, semaphore, lock, pool, pc, op,
                   held, err, res, net, closers>>
    /\ UNCHANGED <<ctorVars, scopeVars, fileVars>>

\* self._semaphore.acquire() takes a permit
GcAcquire(t) ==
    /\ pc[t] = "gc_acquire"
    /\ Semaphore_acquire(semaphore).ok
    /\ semaphore' = Semaphore_acquire(semaphore).value
    /\ net' = [net EXCEPT ![t] = @ + 1]
    /\ pc' = [pc EXCEPT ![t] = "gc_load"]
    /\ UNCHANGED <<self_pool, self_initialized, lock, pool, op, held, err,
                   res, blocked, closers>>
    /\ UNCHANGED <<ctorVars, scopeVars, fileVars>>

\* evaluation of self._pool.getconn: reads self._pool; None has no getconn
GcLoad(t) ==
    /\ pc[t] = "gc_load"
    /\ IF self_pool = "None"
       THEN /\ err' = [err EXCEPT ![t] = "AttributeError"]
            /\ pc' = [pc EXCEPT ![t] = "gc_except"]
       ELSE /\ pc' = [pc EXCEPT ![t] = "gc_draw"]
            /\ UNCHANGED err
    /\ UNCHANGED <<self_pool, self_initialized, semaphore, lock, pool, op, held,
                   res, net, blocked, closers>>
    /\ UNCHANGED <<ctorVars, scopeVars, fileVars>>

\* the call getconn() on the pool object read before
GcDraw(t) ==
    /\ pc[t] = "gc_draw"
    /\ \E o \in getconn(pool, Live) :
          /\ pool' = o.pool
          /\ IF o.result = "conn"
             THEN /\ held' = [held EXCEPT ![t] = o.conn]
                  /\ res' = [res EXCEPT ![t] = "conn"]
                  /\ pc' = [pc EXCEPT ![t] = "idle"]
                  /\ UNCHANGED err
             ELSE /\ err' = [err EXCEPT ![t] = o.result]
                  /\ pc' = [pc EXCEPT ![t] = "gc_except"]
                  /\ UNCHANGED <<held, res>>
    /\ UNCHANGED <<self_pool, self_initialized, semaphore, lock, op, net,
                   blocked, closers>>
    /\ UNCHANGED <<ctorVars, scopeVars, fileVars>>

\* except clause that re-raises without releasing the permit
GcExceptRelease_missing(s) == s

\* except Exception: self._semaphore.release(); raise
GcExceptRelease(s) == Semaphore_release(s)

GcExcept(t) ==
    /\ pc[t] = "gc_except"
    /\ semaphore' = GcExceptRelease(semaphore)
    /\ net' = [net EXCEPT ![t] = @ + (semaphore - semaphore')]
    /\ res' = [res EXCEPT ![t] = err[t]]
    /\ pc' = [pc EXCEPT ![t] = "idle"]
    /\ UNCHANGED <<self_pool, self_initialized, lock, pool, op, held, err,
                   blocked, closers>>
    /\ UNCHANGED <<ctorVars, scopeVars, fileVars>>

GetConnection(t) ==
    \/ CallGet(t)
    \/ GcCheck(t)
    \/ GcWait(t)
    \/ GcAcquire(t)
    \/ GcLoad(t)
    \/ GcDraw(t)
    \/ GcExcept(t)

\* ---- release_connection(conn) ----
\* entry of release_connection(conn) with the connection the caller holds
BeginRelease(t) ==
    /\ pc[t] = "idle"
    /\ held[t] # NoConn
    /\ pc' = [pc EXCEPT ![t] = "rc_check"]
    /\ op' = [op EXCEPT ![t] = "release"]
    /\ res' = [res EXCEPT ![t] = "none"]
    /\ err' = [err EXCEPT ![t] = "none"]
    /\ net' = [net EXCEPT ![t] = 0]
    /\ blocked' = [blocked EXCEPT ![t] = FALSE]
    /\ UNCHANGED <<self_pool, self_initialized, semaphore, lock, pool, held, closers>>

\* a caller that holds a connection calls release_connection() with it
CallRelease(t) ==
    /\ BeginRelease(t)
    /\ UNCHANGED <<ctorVars, scopeVars, fileVars>>

\* release_connection() without the check of self._pool
RcCheckTarget_nocheck(p) == "rc_load"

\* if self._pool: ... (the body is skipped otherwise)
RcCheckTarget(p) == IF p = "None" THEN "idle" ELSE "rc_load"

\* if self._pool: ... (nothing is done otherwise; the caller drops conn)
RcCheck(t) ==
    /\ pc[t] = "rc_check"
    /\ pc' = [pc EXCEPT ![t] = RcCheckTarget(self_pool)]
    /\ IF RcCheckTarget(self_pool) = "idle"
       THEN /\ res' = [res EXCEPT ![t] = "ok"]
            /\ held' = [held EXCEPT ![t] = NoConn]
       ELSE UNCHANGED <<res, held>>
    /\ UNCHANGED <<self_pool, self_initialized, semaphore, lock, pool, op, err, net, blocked, closers>>
    /\ UNCHANGED <<ctorVars, scopeVars, fileVars>>

\* evaluation of self._pool.putconn: reads self._pool; None has no putconn
RcLoad(t) ==
    /\ pc[t] = "rc_load"
    /\ IF self_pool = "None"
       THEN /\ err' = [err EXCEPT ![t] = "AttributeError"]
            /\ pc' = [pc EXCEPT ![t] = "rc_finally"]
       ELSE /\ pc' = [pc EXCEPT ![t] = "rc_put"]
            /\ UNCHANGED err
    /\ UNCHANGED <<self_pool, self_initialized, semaphore, lock, pool, op, held,
                   res, net, blocked, closers>>
    /\ UNCHANGED <<ctorVars, scopeVars, fileVars>>

\* the permit is released in an else clause: only when putconn() returned
RcAfterPut_else(result) == IF result = "ok" THEN "rc_finally" ELSE "idle"

\* where control goes after putconn(conn): the finally clause, always
RcAfterPut(result) == "rc_finally"

\* the call putconn(conn) on the pool object read before
RcPut(t) ==
    /\ pc[t] = "rc_put"
    /\ \E o \in putconn(pool, held[t]) :
          /\ pool' = o.pool
          /\ err' = [err EXCEPT ![t] = IF o.result = "ok" THEN "none" ELSE o.result]
          /\ pc' = [pc EXCEPT ![t] = RcAfterPut(o.result)]
          /\ IF RcAfterPut(o.result) = "idle"
             THEN /\ res' = [res EXCEPT ![t] = o.result]
                  /\ held' = [held EXCEPT ![t] = NoConn]
             ELSE UNCHANGED <<res, held>>
    /\ UNCHANGED <<self_pool, self_initialized, semaphore, lock, op, net,
                   blocked, closers>>
    /\ UNCHANGED <<ctorVars, scopeVars, fileVars>>

\* finally: self._semaphore.release(); then return, or re-raise the exception
RcFinally(t) ==
    /\ pc[t] = "rc_finally"
    /\ semaphore' = Semaphore_release(semaphore)
    /\ net' = [net EXCEPT ![t] = @ - 1]
    /\ res' = [res EXCEPT ![t] = IF err[t] = "none" THEN "ok" ELSE err[t]]
    /\ held' = [held EXCEPT ![t] = NoConn]
    /\ pc' = [pc EXCEPT ![t] = "idle"]
    /\ UNCHANGED <<self_pool, self_initialized, lock, pool, op, err,
                   blocked, closers>>
    /\ UNCHANGED <<ctorVars, scopeVars, fileVars>>

ReleaseConnection(t) ==
    \/ CallRelease(t)
    \/ RcCheck(t)
    \/ RcLoad(t)
    \/ RcPut(t)
    \/ RcFinally(t)

\* ---- close_pool() ----
CallClose(t) ==
    /\ pc[t] = "idle"
    /\ pc' = [pc EXCEPT ![t] = "cp_check"]
    /\ op' = [op EXCEPT ![t] = "close"]
    /\ res' = [res EXCEPT ![t] = "none"]
    /\ err' = [err EXCEPT ![t] = "none"]
    /\ net' = [net EXCEPT ![t] = 0]
    /\ blocked' = [blocked EXCEPT ![t] = FALSE]
    /\ UNCHANGED <<self_pool, self_initialized, semaphore, lock, pool, held, closers>>
    /\ UNCHANGED <<ctorVars, scopeVars, fileVars>>

\* close_pool() without the check of self._pool
CpCheckTarget_nocheck(p) == "cp_lock"

\* if self._pool: ... (returns at once otherwise)
CpCheckTarget(p) == IF p = "None" THEN "idle" ELSE "cp_lock"

CpCheck(t) ==
    /\ pc[t] = "cp_check"
    /\ pc' = [pc EXCEPT ![t] = CpCheckTarget(self_pool)]
    /\ IF CpCheckTarget(self_pool) = "idle"
       THEN res' = [res EXCEPT ![t] = "ok"]
       ELSE UNCHANGED res
    /\ UNCHANGED <<self_pool, self_initialized, semaphore, lock, pool, op, held,
                   err, net, blocked, closers>>
    /\ UNCHANGED <<ctorVars, scopeVars, fileVars>>

\* with self._lock: entry
CpLock(t) ==
    /\ pc[t] = "cp_lock"
    /\ lock = 0
    /\ lock' = t
    /\ pc' = [pc EXCEPT ![t] = "cp_load"]
    /\ UNCHANGED <<self_pool, self_initialized, semaphore, pool, op, held, err, res, net, blocked, closers>>
    /\ UNCHANGED <<ctorVars, scopeVars, fileVars>>

\* evaluation of self._pool.closeall: reads self._pool; None has no closeall
CpLoad(t) ==
    /\ pc[t] = "cp_load"
    /\ IF self_pool = "None"
       THEN /\ err' = [err EXCEPT ![t] = "AttributeError"]
            /\ pc' = [pc EXCEPT ![t] = "cp_finally"]
       ELSE /\ pc' = [pc EXCEPT ![t] = "cp_closeall"]
            /\ UNCHANGED err
    /\ UNCHANGED <<self_pool, self_initialized, semaphore, lock, pool, op, held,
                   res, net, blocked, closers>>
    /\ UNCHANGED <<ctorVars, scopeVars, fileVars>>

\* the call closeall() on the pool object read before
CpCloseAll(t) ==
    /\ pc[t] = "cp_closeall"
    /\ LET o == closeall(pool) IN
          /\ pool' = o.pool
          /\ err' = [err EXCEPT ![t] = IF o.result = "ok" THEN "none" ELSE o.result]
          /\ closers' = IF o.result = "ok" THEN closers + 1 ELSE closers
    /\ pc' = [pc EXCEPT ![t] = "cp_finally"]
    /\ UNCHANGED <<self_pool, self_initialized, semaphore, lock, op, held, res, net, blocked>>
    /\ UNCHANGED <<ctorVars, scopeVars, fileVars>>

\* finally: self._pool = None
CpFinallyPool(t) ==
    /\ pc[t] = "cp_finally"
    /\ self_pool' = "None"
    /\ pc' = [pc EXCEPT ![t] = "cp_finally2"]
    /\ UNCHANGED <<self_initialized, semaphore, lock, pool, op, held, err,
                   res, net, blocked, closers>>
    /\ UNCHANGED <<ctorVars, scopeVars, fileVars>>

\* finally: self._initialized = False
CpFinallyInit(t) ==
    /\ pc[t] = "cp_finally2"
    /\ self_initialized' = FALSE
    /\ pc' = [pc EXCEPT ![t] = "cp_unlock"]
    /\ UNCHANGED <<self_pool, semaphore, lock, pool, op, held, err, res,
                   net, blocked, closers>>
    /\ UNCHANGED <<ctorVars, scopeVars, fileVars>>

\* exit of the with block: the lock is released; return or re-raise
CpUnlock(t) ==
    /\ pc[t] = "cp_unlock"
    /\ lock' = 0
    /\ res' = [res EXCEPT ![t] = IF err[t] = "none" THEN "ok" ELSE err[t]]
    /\ pc' = [pc EXCEPT ![t] = "idle"]
    /\ UNCHANGED <<self_pool, self_initialized, semaphore, pool, op, held, err, net, blocked, closers>>
    /\ UNCHANGED <<ctorVars, scopeVars, fileVars>>

ClosePool(t) ==
    \/ CallClose(t)
    \/ CpCheck(t)
    \/ CpLock(t)
    \/ CpLoad(t)
    \/ CpCloseAll(t)
    \/ CpFinallyPool(t)
    \/ CpFinallyInit(t)
    \/ CpUnlock(t)

Next ==
    \E t \in Threads :
        \/ GetConnection(t)
        \/ ReleaseConnection(t)
        \/ ClosePool(t)

Spec == Init /\ [][Next]_vars

\* ---- vocabulary of the properties ----
\* max_conn of the construction
N == pool.maxconn

\* the pool is live: not closed and still installed
PoolLive == self_pool # "None" /\ ~pool.closed

\* callers that hold a connection they got from get_connection()
Holders == {t \in Threads : held[t] # NoConn}

\* callers inside get_connection() past the semaphore
InDraw == {t \in Threads : pc[t] \in {"gc_load", "gc_draw", "gc_except"}}

\* positions inside close_pool() and inside release_connection()
CpPcs == {"cp_check", "cp_lock", "cp_load", "cp_closeall", "cp_finally",
          "cp_finally2", "cp_unlock"}
RcPcs == {"rc_check", "rc_load", "rc_put", "rc_finally"}

\* a finished call of the given method
Returned(t, method) == pc[t] = "idle" /\ op[t] = method

\* C1: pool bound.  The callers that hold a connection or are drawing one
\* are never more than the permits taken from the semaphore, which are never
\* more than max_conn: the permit is taken before the draw.
C1_PoolBound ==
    /\ semaphore >= 0
    /\ Cardinality(Holders \cup InDraw) <= N - semaphore
    /\ Cardinality(Holders) <= N

\* max_conn callers hold a connection and a further caller waits for a permit
C1_Witness ==
    /\ PoolLive
    /\ Cardinality(Holders) = N
    /\ \E t \in Threads : pc[t] = "gc_acquire" /\ blocked[t]

\* C2: exclusive ownership.  The connections that callers got and have not
\* yet handed back to the underlying pool are pairwise distinct.
Outstanding(t) == held[t] # NoConn /\ pc[t] # "rc_finally"

C2_ExclusiveOwnership ==
    \A t1, t2 \in Threads :
        (t1 # t2 /\ Outstanding(t1) /\ Outstanding(t2)) => held[t1] # held[t2]

\* two callers hold a connection each
C2_Witness ==
    /\ PoolLive
    /\ \E t1, t2 \in Threads :
          /\ t1 # t2
          /\ Returned(t1, "get") /\ res[t1] = "conn" /\ held[t1] # NoConn
          /\ Returned(t2, "get") /\ res[t2] = "conn" /\ held[t2] # NoConn

\* C4: no permit leak on a failed acquire.  A get_connection() that raised
\* gave back every permit it took, and on a live pool the free permits are
\* max_conn minus the callers that hold or draw a connection.
C4_NoPermitLeak ==
    /\ \A t \in Threads :
          (Returned(t, "get") /\ res[t] \notin {"conn", "none"}) => net[t] = 0
    /\ PoolLive => semaphore = N - Cardinality(Holders \cup InDraw)

\* a draw failed after the permit was taken and every permit is free again
C4_Witness ==
    /\ PoolLive
    /\ Holders = {}
    /\ semaphore = N
    /\ \E t \in Threads : Returned(t, "get") /\ res[t] = "OperationalError"

\* C3: backpressure.  A get_connection() that found max_conn callers holding
\* connections waited for a permit and, once a holder released, returned a
\* connection (a refusal of the database server aside).
C3_Backpressure ==
    \A t \in Threads :
        (Returned(t, "get") /\ blocked[t] /\ PoolLive)
            => res[t] \in {"conn", "OperationalError"}

\* C5 as stated: every finished release_connection() released exactly one
\* permit.
C5_EveryReleaseFreesPermit ==
    \A t \in Threads : Returned(t, "release") => net[t] = -1

\* C5, amended: a release_connection() that found self._pool set released
\* exactly one permit, also when putconn() raised, and then the exception
\* reached the caller; a release_connection() that found self._pool None
\* released no permit and returned normally.
C5_ReleaseIsUnconditional ==
    /\ [](\A t \in Threads :
            Returned(t, "release") =>
                \/ net[t] = -1
                \/ net[t] = 0 /\ res[t] = "ok" /\ self_pool = "None")
    /\ [][\A t \in Threads :
            /\ (pc[t] = "rc_check" /\ pc'[t] # "rc_check" /\ self_pool # "None")
                  => pc'[t] = "rc_load"
            /\ (pc[t] \in {"rc_load", "rc_put", "rc_finally"} /\ pc'[t] = "idle")
                  => /\ semaphore' = semaphore + 1
                     /\ net'[t] = -1
                     /\ res'[t] = IF err[t] = "none" THEN "ok" ELSE err[t]]_vars

\* putconn() raised, the permit is free again and the caller got the exception
C5_Witness ==
    /\ PoolLive
    /\ \E t \in Threads :
          /\ Returned(t, "release")
          /\ res[t] = "RollbackError"
          /\ net[t] = -1
    /\ semaphore = N - Cardinality(Holders \cup InDraw)

\* C6: failed releases never cause starvation.  No get_connection() fails
\* for lack of capacity in the underlying pool.
C6_NoStarvation ==
    \A t \in Threads : Returned(t, "get") => res[t] # "PoolExhausted"

\* C7: after close_pool() the pool is unusable: every return of close_pool()
\* leaves self._pool None, which it stays; with no close_pool() running
\* _initialized is False as well; a get_connection() that starts then raises
\* ConnectionError at once, without waiting for or taking a permit.
C7_ClosedPoolRefuses ==
    /\ [](((\A t \in Threads : pc[t] \notin CpPcs) /\ self_pool = "None")
            => ~self_initialized)
    /\ [][/\ self_pool = "None" => self_pool' = "None"
          /\ \A t \in Threads :
               /\ (pc[t] \in CpPcs /\ pc'[t] = "idle") => self_pool' = "None"
               /\ (pc[t] = "gc_check" /\ pc'[t] # "gc_check" /\ self_pool = "None")
                     => /\ pc'[t] = "idle"
                        /\ res'[t] = "ConnectionError"
                        /\ semaphore' = semaphore
                        /\ net'[t] = 0]_vars

\* a get_connection() on the closed pool raised ConnectionError while a
\* permit was free
C7_Witness ==
    /\ self_pool = "None"
    /\ ~self_initialized
    /\ semaphore > 0
    /\ \E t \in Threads :
          Returned(t, "get") /\ res[t] = "ConnectionError" /\ net[t] = 0

\* C8: concurrent close_pool() calls: at most one closes the underlying
\* pool, none raises, and the pool is closed once one has returned.
C8_ConcurrentClose ==
    /\ closers <= 1
    /\ \A t \in Threads :
          Returned(t, "close") => (res[t] = "ok" /\ self_pool = "None")

\* C9: a get_connection() that races with close_pool() returns a connection
\* or raises ConnectionError; it does not fail with another error caused by
\* the close.
C9_GetVersusClose ==
    \A t \in Threads :
        Returned(t, "get") => res[t] \notin {"AttributeError", "PoolClosed"}

\* C10: close_pool() on a closed pool returns at once, raises nothing and
\* changes no state of the pool.
C10_CloseIdempotent ==
    [][\A t \in Threads :
          (pc[t] = "cp_check" /\ pc'[t] # "cp_check" /\ self_pool = "None")
              => /\ pc'[t] = "idle"
                 /\ res'[t] = "ok"
                 /\ UNCHANGED <<self_pool, self_initialized, semaphore, lock,
                                pool, closers>>]_vars

\* two close_pool() calls returned normally and one of them closed the pool
C10_Witness ==
    /\ closers = 1
    /\ self_pool = "None"
    /\ \E t1, t2 \in Threads :
          /\ t1 # t2
          /\ Returned(t1, "close") /\ res[t1] = "ok"
          /\ Returned(t2, "close") /\ res[t2] = "ok"

\* ======================================================================
\* Construction of the singleton: PostgresDB(...) and get_instance()
\* ======================================================================
\* database names a caller may pass
DbNames == {"db1", "db2"}

\* arguments of a PostgresDB(...) call
CtorArgs == [dbname : DbNames, max_conn : MinConn..MaxConn]

\* value of the pool variable while no pool object exists
NoPool == [closed |-> TRUE, minconn |-> 0, maxconn |-> 0, free |-> << >>, used |-> {}]

\* state of the class before the first PostgresDB(...) call
InitCtor ==
    /\ NoScope
    /\ NoFile
    /\ cls_instance = 0
    /\ details = "none"
    /\ created = [instances |-> 0, pools |-> 0]
    /\ args = [t \in Threads |-> [dbname |-> "db1", max_conn |-> MinConn]]
    /\ ret = [t \in Threads |-> 0]
    /\ self_pool = "unset"
    /\ self_initialized = FALSE
    /\ semaphore = 0
    /\ lock = 0
    /\ pool = NoPool
    /\ pc = [t \in Threads |-> "idle"]
    /\ op = [t \in Threads |-> "none"]
    /\ held = [t \in Threads |-> NoConn]
    /\ err = [t \in Threads |-> "none"]
    /\ res = [t \in Threads |-> "none"]
    /\ net = [t \in Threads |-> 0]
    /\ blocked = [t \in Threads |-> FALSE]
    /\ closers = 0

\* a thread calls PostgresDB(dbname, ..., max_conn)
CallCtor(t) ==
    /\ pc[t] = "idle"
    /\ \E a \in CtorArgs : args' = [args EXCEPT ![t] = a]
    /\ pc' = [pc EXCEPT ![t] = "new_check"]
    /\ op' = [op EXCEPT ![t] = "construct"]
    /\ res' = [res EXCEPT ![t] = "none"]
    /\ ret' = [ret EXCEPT ![t] = 0]
    /\ UNCHANGED <<self_pool, self_initialized, semaphore, lock, pool, held, err,
                   net, blocked, closers, cls_instance, details, created>>
    /\ UNCHANGED <<scopeVars, fileVars>>

\* __new__: the unlocked test "if not cls._instance"; an existing instance is returned
NewCheck(t) ==
    /\ pc[t] = "new_check"
    /\ IF cls_instance = 0
          THEN /\ pc' = [pc EXCEPT ![t] = "new_lock"]
               /\ ret' = ret
          ELSE /\ pc' = [pc EXCEPT ![t] = "init_check"]
               /\ ret' = [ret EXCEPT ![t] = cls_instance]
    /\ UNCHANGED <<self_pool, self_initialized, semaphore, lock, pool, op, held, err,
                   res, net, blocked, closers, cls_instance, details, created, args>>
    /\ UNCHANGED <<scopeVars, fileVars>>

\* __new__: "with cls._lock"
NewLock(t) ==
    /\ pc[t] = "new_lock"
    /\ lock = 0
    /\ lock' = t
    /\ pc' = [pc EXCEPT ![t] = "new_inner"]
    /\ UNCHANGED <<self_pool, self_initialized, semaphore, pool, op, held, err,
                   res, net, blocked, closers>>
    /\ UNCHANGED <<ctorVars, scopeVars, fileVars>>

\* the second test without its condition: every thread that got the lock creates
NewInnerCheck_always(inst) == TRUE

\* __new__: the second test "if not cls._instance", made under the lock
NewInnerCheck(inst) == inst = 0

\* __new__: under the lock, create the instance unless another thread has
NewInner(t) ==
    /\ pc[t] = "new_inner"
    /\ IF NewInnerCheck(cls_instance)
          THEN /\ cls_instance' = created.instances + 1
               /\ created' = [created EXCEPT !.instances = @ + 1]
          ELSE UNCHANGED <<cls_instance, created>>
    /\ pc' = [pc EXCEPT ![t] = "new_unlock"]
    /\ UNCHANGED <<self_pool, self_initialized, semaphore, lock, pool, op, held, err,
                   res, net, blocked, closers, details, args, ret>>
    /\ UNCHANGED <<scopeVars, fileVars>>

\* __new__: leave the with-block and "return cls._instance"
NewUnlock(t) ==
    /\ pc[t] = "new_unlock"
    /\ lock' = 0
    /\ ret' = [ret EXCEPT ![t] = cls_instance]
    /\ pc' = [pc EXCEPT ![t] = "init_check"]
    /\ UNCHANGED <<self_pool, self_initialized, semaphore, pool, op, held, err,
                   res, net, blocked, closers, cls_instance, details, created, args>>
    /\ UNCHANGED <<scopeVars, fileVars>>

\* an __init__ that returns whenever the instance exists, closed or not
InitGuard_once(initialized) == TRUE

\* __init__ without its guard: every construction initialises again
InitGuard_missing(initialized) == FALSE

\* __init__: "if getattr(self, '_initialized', False): return"
InitGuard(initialized) == initialized

\* __init__: the guard; an initialised instance is returned untouched
InitCheck(t) ==
    /\ pc[t] = "init_check"
    /\ IF InitGuard(self_initialized)
          THEN /\ pc' = [pc EXCEPT ![t] = "idle"]
               /\ res' = [res EXCEPT ![t] = "ok"]
          ELSE /\ pc' = [pc EXCEPT ![t] = "init_store"]
               /\ res' = res
    /\ UNCHANGED <<self_pool, self_initialized, semaphore, lock, pool, op, held, err,
                   net, blocked, closers>>
    /\ UNCHANGED <<ctorVars, scopeVars, fileVars>>

\* __init__: store dbname, user, host and port
InitStore(t) ==
    /\ pc[t] = "init_store"
    /\ details' = args[t].dbname
    /\ pc' = [pc EXCEPT ![t] = "init_sem"]
    /\ UNCHANGED <<self_pool, self_initialized, semaphore, lock, pool, op, held, err,
                   res, net, blocked, closers, cls_instance, created, args, ret>>
    /\ UNCHANGED <<scopeVars, fileVars>>

\* __init__: self._semaphore = Semaphore(max_conn)
InitSem(t) ==
    /\ pc[t] = "init_sem"
    /\ semaphore' = Semaphore(args[t].max_conn)
    /\ pc' = [pc EXCEPT ![t] = "init_pool"]
    /\ UNCHANGED <<self_pool, self_initialized, lock, pool, op, held, err,
                   res, net, blocked, closers>>
    /\ UNCHANGED <<ctorVars, scopeVars, fileVars>>

\* the i-th smallest element of a set of numbers
Nth(S, i) == CHOOSE x \in S : Cardinality({y \in S : y < x}) = i - 1

\* the connections a pool opens at its creation are new objects: none of
\* them is a connection a caller still holds from an earlier pool
Connect(p, kept) ==
    [p EXCEPT !.free = [i \in DOMAIN p.free |-> Nth(ConnIds \ kept, i)]]

\* __init__: self._pool = ThreadedConnectionPool(...); the library raises when
\* the database cannot be reached, and the constructor raises with it
InitPool(t) ==
    /\ pc[t] = "init_pool"
    /\ \/ /\ pool' = Connect(ThreadedConnectionPool(MinConn, args[t].max_conn),
                                Range(held))
          /\ self_pool' = "pool"
          /\ created' = [created EXCEPT !.pools = @ + 1]
          /\ pc' = [pc EXCEPT ![t] = "init_flag"]
          /\ res' = res
       \/ /\ pc' = [pc EXCEPT ![t] = "idle"]
          /\ res' = [res EXCEPT ![t] = "OperationalError"]
          /\ UNCHANGED <<pool, self_pool, created>>
    /\ UNCHANGED <<self_initialized, semaphore, lock, op, held, err,
                   net, blocked, closers, cls_instance, details, args, ret>>
    /\ UNCHANGED <<scopeVars, fileVars>>

\* __init__: self._initialized = True, then the constructor returns
InitFlag(t) ==
    /\ pc[t] = "init_flag"
    /\ self_initialized' = TRUE
    /\ pc' = [pc EXCEPT ![t] = "idle"]
    /\ res' = [res EXCEPT ![t] = "ok"]
    /\ UNCHANGED <<self_pool, semaphore, lock, pool, op, held, err,
                   net, blocked, closers>>
    /\ UNCHANGED <<ctorVars, scopeVars, fileVars>>

\* PostgresDB.get_instance(): ValueError if there is no instance, else the instance
GetInstance(t) ==
    /\ pc[t] = "idle"
    /\ op' = [op EXCEPT ![t] = "get_instance"]
    /\ IF cls_instance = 0
          THEN /\ res' = [res EXCEPT ![t] = "ValueError"]
               /\ ret' = [ret EXCEPT ![t] = 0]
          ELSE /\ res' = [res EXCEPT ![t] = "ok"]
               /\ ret' = [ret EXCEPT ![t] = cls_instance]
    /\ UNCHANGED <<self_pool, self_initialized, semaphore, lock, pool, pc, held, err,
                   net, blocked, closers, cls_instance, details, created, args>>
    /\ UNCHANGED <<scopeVars, fileVars>>

NextCtor ==
    \E t \in Threads :
        \/ CallCtor(t)
        \/ NewCheck(t)
        \/ NewLock(t)
        \/ NewInner(t)
        \/ NewUnlock(t)
        \/ InitCheck(t)
        \/ InitStore(t)
        \/ InitSem(t)
        \/ InitPool(t)
        \/ InitFlag(t)
        \/ GetInstance(t)

SpecCtor == InitCtor /\ [][NextCtor]_vars

\* a PostgresDB(...) call of t has returned the instance
Constructor(t) == Returned(t, "construct") /\ res[t] = "ok"

\* t is in the constructor and has not passed the guard of __init__
BeforeGuard(t) == op[t] = "construct" /\ pc[t] \in {"new_check", "init_check"}

\* C11: a PostgresDB(...) call made when an initialised instance exists returns
\* that instance and changes neither the stored details, nor the pool, nor the
\* permit count, whatever arguments it was given
C11_SingletonIdentity ==
    [][\A t \in Threads :
          (BeforeGuard(t) /\ self_initialized /\ pc'[t] # pc[t]) =>
             /\ UNCHANGED <<cls_instance, details, pool, self_pool, semaphore, created>>
             /\ pc'[t] \in {"init_check", "idle"}
             /\ ret'[t] = cls_instance
             /\ (pc'[t] = "idle" => res'[t] = "ok")]_vars

\* a constructor call with other arguments than the first one has returned
C11_Witness ==
    \E t \in Threads :
        /\ Constructor(t)
        /\ self_initialized
        /\ created.pools = 1
        /\ ret[t] = cls_instance
        /\ args[t].dbname # details
        /\ args[t].max_conn # pool.maxconn

\* C12: under concurrent first construction one instance is created and the
\* pool is created once (violated: __init__ is not run under the lock)
C12_InitialisedOnce == created.instances <= 1 /\ created.pools <= 1

\* t has just run get_instance()
GetInstanceStep(t) ==
    /\ pc[t] = "idle"
    /\ pc'[t] = "idle"
    /\ op'[t] = "get_instance"
    /\ <<op[t], res[t], ret[t]>>' # <<op[t], res[t], ret[t]>>

\* C13: get_instance() raises ValueError while no instance has been created,
\* and afterwards returns the object every constructor call returned
C13_GetInstance ==
    [][\A t \in Threads :
          GetInstanceStep(t) =>
             IF created.instances = 0
                THEN res'[t] = "ValueError"
                ELSE /\ res'[t] = "ok"
                     /\ ret'[t] # 0
                     /\ \A u \in Threads : Constructor(u) => ret'[t] = ret[u]]_vars

\* get_instance() has returned the object a constructor call of another thread returned
C13_Witness ==
    \E t, u \in Threads :
        /\ t # u
        /\ Returned(t, "get_instance") /\ res[t] = "ok"
        /\ Constructor(u)
        /\ ret[t] = ret[u]

\* ======================================================================
\* ManagedConnection scopes and the on_created handlers
\* ======================================================================
\* how the wrapped operation ends; process_file returns None for each of its
\* outcomes SKIPPED, DONE and FAILED, or lets an exception escape
Outcomes == {"returned", "Exception"}

\* the exception an outcome leaves in flight
Raised(outcome) == IF outcome = "Exception" THEN "Exception" ELSE "none"

\* a scope that has not been entered
NewScope(k) ==
    [kind |-> k, phase |-> "none", acquired |-> FALSE, body |-> "none",
     calls |-> 0, rel |-> "none", exc |-> "none", bal |-> 0]

\* "with ManagedConnection(db) as conn" (kind "with"), or on_created of
\* DataEventHandler ("data") or of OrderEventHandler ("order"), starts:
\* __enter__ calls self.db.get_connection()
BeginScope(t, k) ==
    /\ scope[t].phase \in {"none", "done"}
    /\ BeginGet(t)
    /\ scope' = [scope EXCEPT ![t] = [NewScope(k) EXCEPT !.phase = "enter"]]

\* a scope is entered by a caller that is not the dispatcher of a daemon
Enter(t, k) ==
    /\ BeginScope(t, k)
    /\ UNCHANGED <<daemon, ctorVars, fileVars>>

\* what propagates when get_connection() raised: ManagedConnection re-raises,
\* DataEventHandler logs it, OrderEventHandler reads the unbound conn in finally
EntryError(k, e) ==
    CASE k = "with" -> e
      [] k = "data" -> "none"
      [] k = "order" -> "UnboundLocalError"

\* get_connection() raised: the body is not run and nothing is released
EnterFailed(t) ==
    /\ scope[t].phase = "enter"
    /\ pc[t] = "idle"
    /\ held[t] = NoConn
    /\ scope' = [scope EXCEPT ![t].phase = "done",
                              ![t].exc = EntryError(scope[t].kind, res[t]),
                              ![t].bal = net[t]]
    /\ UNCHANGED <<daemon, poolVars, ctorVars, fileVars>>

\* a scope that releases only when the body returned normally
ReleasesOnExit_normal_only(conn, outcome) == conn # NoConn /\ Raised(outcome) = "none"

\* __exit__: "if self.conn: release"; finally: "if self.db_conn: release"
ReleasesOnExit(conn, outcome) == conn # NoConn

\* the body (process_file for the handlers) ends; __exit__, or the finally
\* clause, calls release_connection(conn)
Body(t) ==
    /\ scope[t].phase = "enter"
    /\ pc[t] = "idle"
    /\ held[t] # NoConn
    /\ \E o \in Outcomes :
          /\ scope' = [scope EXCEPT ![t].acquired = TRUE,
                                    ![t].body = o,
                                    ![t].exc = Raised(o),
                                    ![t].bal = net[t],
                                    ![t].calls = IF ReleasesOnExit(held[t], o) THEN 1 ELSE 0,
                                    ![t].phase = IF ReleasesOnExit(held[t], o)
                                                    THEN "exit" ELSE "done"]
          /\ IF ReleasesOnExit(held[t], o)
                THEN BeginRelease(t)
                ELSE UNCHANGED poolVars
    /\ UNCHANGED <<daemon, ctorVars, fileVars>>

\* an __exit__ that returns True
ExitPropagates_suppress(e) == "none"

\* __exit__ returns False: the exception of the body stays in flight
ExitPropagates(e) == e

\* what propagates after the release: an error of release_connection, else the
\* exception of the body, which the handlers catch and log
ExitError(k, e, released) ==
    CASE released # "ok" /\ k = "data" -> "none"
      [] released # "ok" /\ k # "data" -> released
      [] released = "ok" /\ k = "with" -> ExitPropagates(e)
      [] released = "ok" /\ k # "with" -> "none"

\* release_connection() has returned or raised: the scope is left
Leave(t) ==
    /\ scope[t].phase = "exit"
    /\ pc[t] = "idle"
    /\ scope' = [scope EXCEPT ![t].phase = "done",
                              ![t].rel = res[t],
                              ![t].exc = ExitError(scope[t].kind, scope[t].exc, res[t]),
                              ![t].bal = @ + net[t]]
    /\ UNCHANGED <<daemon, poolVars, ctorVars, fileVars>>

\* a caller that has opened no scope closes the pool
OutsideClose(t) ==
    /\ scope[t].phase = "none"
    /\ ClosePool(t)

\* the steps inside get_connection() and release_connection()
PoolStep(t) ==
    \/ GcCheck(t)
    \/ GcWait(t)
    \/ GcAcquire(t)
    \/ GcLoad(t)
    \/ GcDraw(t)
    \/ GcExcept(t)
    \/ RcCheck(t)
    \/ RcLoad(t)
    \/ RcPut(t)
    \/ RcFinally(t)

NextScope ==
    \E t \in Threads :
        \/ Enter(t, "with")
        \/ EnterFailed(t)
        \/ Body(t)
        \/ Leave(t)
        \/ PoolStep(t)
        \/ OutsideClose(t)

SpecScope == Init /\ [][NextScope]_vars

\* the handlers of file-creation events; nothing in the daemons closes the pool
NextEvents ==
    \E t \in Threads :
        \/ \E k \in {"data", "order"} : Enter(t, k)
        \/ EnterFailed(t)
        \/ Body(t)
        \/ Leave(t)
        \/ PoolStep(t)

SpecEvents == Init /\ [][NextEvents]_vars

\* the scope of t has been left
Left(t) == scope[t].phase = "done"

\* the entry of t's scope acquired a connection
Acquired(t) == scope[t].acquired

\* t calls release_connection()
ReleaseCall(t) == pc[t] = "idle" /\ pc'[t] = "rc_check"

\* every release_connection() call is the one call made when the body of a
\* scope has ended, with the connection its entry acquired
ReleasedOnce ==
    [][\A t \in Threads :
          ReleaseCall(t) =>
             /\ scope[t].phase = "enter" /\ scope'[t].phase = "exit"
             /\ scope[t].calls = 0 /\ scope'[t].calls = 1
             /\ held[t] # NoConn /\ held'[t] = held[t]]_vars

\* C14 as stated: a left scope whose entry acquired a connection has released
\* it, has given back the permit it took and ends with the exception of its
\* body; a scope whose entry failed has released nothing
C14_ScopedAcquisition ==
    \A t \in Threads :
        Left(t) =>
           IF Acquired(t)
              THEN /\ held[t] = NoConn /\ scope[t].calls = 1
                   /\ scope[t].bal = 0
                   /\ (Raised(scope[t].body) # "none" => scope[t].exc # "none")
              ELSE /\ scope[t].calls = 0 /\ scope[t].bal = 0
                   /\ scope[t].exc # "none"

\* C14, amended: exit calls release_connection exactly once with the acquired
\* connection; the permit is given back unless the pool was closed while the
\* scope was open, in which case the release does nothing; a scope whose body
\* raised ends with an exception, a scope whose entry failed releases nothing
C14_ScopedAcquisitionUnlessClosed ==
    /\ [](\A t \in Threads :
            Left(t) =>
               IF Acquired(t)
                  THEN /\ held[t] = NoConn /\ scope[t].calls = 1
                       /\ \/ scope[t].bal = 0
                          \/ scope[t].bal = 1 /\ self_pool = "None" /\ scope[t].rel = "ok"
                       /\ (Raised(scope[t].body) # "none" => scope[t].exc # "none")
                       /\ (Raised(scope[t].body) = "none" /\ scope[t].rel = "ok"
                              => scope[t].exc = "none")
                  ELSE /\ scope[t].calls = 0 /\ scope[t].bal = 0
                       /\ scope[t].exc # "none")
    /\ ReleasedOnce

\* a scope whose body raised has been left with the permit given back
C14_Witness ==
    \E t \in Threads :
        /\ Left(t) /\ Acquired(t)
        /\ scope[t].body = "Exception"
        /\ scope[t].exc = "Exception"
        /\ scope[t].bal = 0
        /\ self_pool = "pool"

\* no on_created call is in progress
Quiet == \A t \in Threads : scope[t].phase \in {"none", "done"}

\* C15: when on_created has returned, the connection acquired for the event
\* has been passed to release_connection and the permit is given back, whatever
\* process_file did; when no event is being handled no handler holds a
\* connection and all max_conn permits are available
C15_HandlerReleases ==
    /\ \A t \in Threads :
          Left(t) => /\ held[t] = NoConn
                     /\ scope[t].bal = 0
                     /\ scope[t].calls = (IF Acquired(t) THEN 1 ELSE 0)
    /\ Quiet => (Holders = {} /\ semaphore = N)

\* events have been handled by both handlers, process_file raised in one and
\* returned in the other, and all permits are back
C15_Witness ==
    /\ Quiet
    /\ semaphore = N
    /\ \E t, u \in Threads :
          /\ t # u
          /\ Left(t) /\ Acquired(t) /\ scope[t].body = "Exception"
          /\ Left(u) /\ Acquired(u) /\ scope[u].body = "returned"
          /\ scope[t].kind # scope[u].kind

\* ======================================================================
\* merge_tables: the upsert of Staging into Target
\* ======================================================================
\* the upsert overwrites also on an equal timestamp
Newer_or_equal(r, old) == r.at >= old.at

\* the upsert overwrites whatever the timestamps (last call wins)
Newer_always(r, old) == TRUE

\* ON CONFLICT DO UPDATE ... WHERE excluded.processed_at > target.processed_at
Newer(r, old) == r.at > old.at

\* INSERT INTO target SELECT * FROM tmp ON CONFLICT (pk) DO UPDATE SET <all
\* non-key columns> = excluded.<column> WHERE ...: evaluated for each staged row
Merge(stg, tgt) ==
    [k \in (DOMAIN stg) \cup (DOMAIN tgt) |->
        IF k \notin DOMAIN stg THEN tgt[k]
        ELSE IF k \notin DOMAIN tgt THEN stg[k]
        ELSE IF Newer(stg[k], tgt[k]) THEN stg[k]
        ELSE tgt[k]]

\* the rows of S with the highest processed_at
Newest(S) == {r \in S : \A q \in S : q.at <= r.at}

\* the rows of a relation, per key
RowsOf(rel) == [k \in Keys |-> IF k \in DOMAIN rel THEN {rel[k]} ELSE {}]

\* the newest rows per key once the rows of a batch have been merged
Seen(old, stg) == [k \in Keys |-> Newest(old[k] \cup RowsOf(stg)[k])]

\* what a merge of stg into tgt does to the staged keys
Decisions(stg, tgt) ==
    {"insert" : k \in (DOMAIN stg) \ (DOMAIN tgt)}
    \cup {"update" : k \in {j \in (DOMAIN stg) \cap (DOMAIN tgt) : stg[j].at > tgt[j].at}}
    \cup {"keep" : k \in {j \in (DOMAIN stg) \cap (DOMAIN tgt) : stg[j].at <= tgt[j].at}}

\* the pool as constructed, with no caller inside it
PoolAtRest ==
    /\ Constructed
    /\ NoScope
    /\ self_pool = "pool"
    /\ self_initialized = TRUE
    /\ lock = 0
    /\ semaphore = Semaphore(MinConn)
    /\ pool = ThreadedConnectionPool(MinConn, MinConn)
    /\ pc = [t \in Threads |-> "idle"]
    /\ op = [t \in Threads |-> "none"]
    /\ held = [t \in Threads |-> NoConn]
    /\ err = [t \in Threads |-> "none"]
    /\ res = [t \in Threads |-> "none"]
    /\ net = [t \in Threads |-> 0]
    /\ blocked = [t \in Threads |-> FALSE]
    /\ closers = 0

\* a Target that exists already and a batch in Staging
InitMerge ==
    /\ PoolAtRest
    /\ manifest = << >>
    /\ run = [pc |-> "idle"]
    /\ runs = 0
    /\ did = {}
    /\ target \in Relations
    /\ staging \in Relations
    /\ seen = RowsOf(target)

\* merge_tables(tmp_table, target_table, conn), the upsert being committed
MergeTables ==
    /\ run.pc = "idle"
    /\ target' = Merge(staging, target)
    /\ seen' = Seen(seen, staging)
    /\ did' = Decisions(staging, target)
    /\ run' = [pc |-> "merged"]
    /\ UNCHANGED <<staging, manifest, runs>>
    /\ UNCHANGED <<poolVars, ctorVars, scopeVars>>

\* a later batch is found in Staging
NextBatch ==
    /\ run.pc = "merged"
    /\ staging' \in Relations
    /\ run' = [pc |-> "idle"]
    /\ UNCHANGED <<manifest, target, seen, did, runs>>
    /\ UNCHANGED <<poolVars, ctorVars, scopeVars>>

NextMerge == MergeTables \/ NextBatch

SpecMerge == InitMerge /\ [][NextMerge]_vars

\* C18: a merge inserts the staged rows whose key Target lacks, overwrites the
\* non-key columns of a Target row exactly when the staged row of its key has
\* a strictly greater processed_at, and leaves every other row as it was; the
\* decision is taken for each row by itself
C18_MonotonicMerge ==
    [][run'.pc = "merged" =>
          /\ DOMAIN target' = (DOMAIN target) \cup (DOMAIN staging)
          /\ \A k \in DOMAIN staging :
                IF k \notin DOMAIN target THEN target'[k] = staging[k]
                ELSE IF staging[k].at > target[k].at THEN target'[k] = staging[k]
                ELSE target'[k] = target[k]
          /\ \A k \in (DOMAIN target) \ (DOMAIN staging) : target'[k] = target[k]]_vars

\* one batch has overwritten the row of one key and left the row of another
\* key, which has the same processed_at as the staged row, untouched
C18_Witness ==
    /\ run.pc = "merged"
    /\ did = {"update", "keep"}
    /\ \E k \in DOMAIN staging : target[k] # staging[k] /\ target[k].at = staging[k].at

\* C19: every Target row is one of the rows merged for its key (or found in
\* Target at the start) and no such row has a higher processed_at; the
\* processed_at of a Target row never decreases and no row disappears
C19_NewestWins ==
    /\ [](\A k \in DOMAIN target : target[k] \in seen[k])
    /\ [][\A k \in DOMAIN target :
             k \in DOMAIN target' /\ target'[k].at >= target[k].at]_vars

\* a batch with an older row for a key has been merged and Target has kept
\* the newer row, which differs from it
C19_Witness ==
    /\ run.pc = "merged"
    /\ \E k \in (DOMAIN staging) \cap (DOMAIN target) :
          /\ staging[k].at < target[k].at
          /\ staging[k].val # target[k].val
          /\ seen[k] = {target[k]}

\* ======================================================================
\* process_file: digest, check, stage, record, merge
\* ======================================================================
\* paths under which a file can arrive
Paths == {"a.csv", "b.csv"}

\* the bytes of a CSV file: a header and one line per row, at most one per key
Contents == UNION {[D -> Vals] : D \in SUBSET Keys}

\* the files that can arrive
Files == [path : Paths, bytes : Contents]

\* get_md5(csv_file): a function of the bytes of the file, not of its path
get_md5(f) == f.bytes

\* a process_file call that has not started; lost holds the staged rows of
\* the last file whose merge failed after its Manifest row was committed;
\* fault tells that the database or the file system has failed a statement
NoRun ==
    [pc |-> "idle", file |-> [path |-> "a.csv", bytes |-> << >>], again |-> FALSE,
     moved |-> FALSE, read |-> "none", copy |-> "none", recorded |-> FALSE,
     merged |-> FALSE, outcome |-> "none", lost |-> << >>, fault |-> FALSE]

\* what Target can hold when the pipeline starts: rows merged earlier
Earlier == {r \in Relations : \A k \in DOMAIN r : r[k].at = 1}

\* empty tmp and manifest tables, a Target that exists already
InitFile ==
    /\ PoolAtRest
    /\ staging = << >>
    /\ manifest = << >>
    /\ target \in Earlier
    /\ seen = [k \in Keys |-> {}]
    /\ did = {}
    /\ run = NoRun
    /\ runs = 0

\* the files that can arrive next; the first one arrives as a.csv
Arriving == {f \in Files : runs = 0 => f.path = "a.csv"}

\* on_created hands a new file to process_file; the digest is computed
StartFile ==
    /\ run.pc = "idle"
    /\ runs < MaxRuns
    /\ runs' = runs + 1
    /\ \E f \in Arriving :
          run' = [NoRun EXCEPT !.pc = "check",
                               !.file = f,
                               !.again = (runs > 0 /\ run.recorded
                                            /\ get_md5(run.file) = get_md5(f)),
                               !.moved = (run.file.path # f.path),
                               !.lost = run.lost]
    /\ UNCHANGED <<staging, manifest, target, seen, did>>
    /\ UNCHANGED <<poolVars, ctorVars, scopeVars>>

\* process_file without the digest test: no file is skipped
SkipIf_never(exists) == FALSE

\* "if not results[0]: ... else: Batch already processed"
SkipIf(exists) == exists

\* a test "if not results" in place of "if not results[0]": the None of a
\* failed read counts as "digest not found"
OnReadFailure_proceed == [pc |-> "copy", outcome |-> "none"]

\* execute_read returns None when the query fails; results[0] raises TypeError
\* before the try block of process_file is entered
OnReadFailure == [pc |-> "idle", outcome |-> "RAISED"]

\* SELECT EXISTS (SELECT 1 FROM manifest WHERE digest = ...) through
\* execute_read, then the test of results[0]
CheckManifest ==
    /\ run.pc = "check"
    /\ \/ run' = [run EXCEPT !.read = "failed", !.pc = OnReadFailure.pc,
                             !.outcome = OnReadFailure.outcome, !.fault = TRUE]
       \/ IF SkipIf(get_md5(run.file) \in DOMAIN manifest)
             THEN run' = [run EXCEPT !.read = "ok", !.pc = "idle", !.outcome = "SKIPPED"]
             ELSE run' = [run EXCEPT !.read = "ok", !.pc = "copy"]
    /\ UNCHANGED <<staging, manifest, target, seen, did, runs>>
    /\ UNCHANGED <<poolVars, ctorVars, scopeVars>>

\* a try block that merges before it inserts the Manifest row
StepAfter_merge_first(p) ==
    CASE p = "copy" -> "merge"
      [] p = "merge" -> "record"
      [] p = "record" -> "idle"

\* the try block of process_file: execute_csv_copy, insert_to_table,
\* merge_tables, in this order
StepAfter(p) ==
    CASE p = "copy" -> "record"
      [] p = "record" -> "merge"
      [] p = "merge" -> "idle"

\* a COPY that keeps the lines read before the offending one
CopyRows_partial(stg, bytes, now) ==
    [ok |-> (DOMAIN bytes) \cap (DOMAIN stg) = {},
     rows |-> [k \in (DOMAIN stg) \cup (DOMAIN bytes) |->
                  IF k \in DOMAIN stg THEN stg[k]
                  ELSE [val |-> bytes[k], at |-> now]]]

\* COPY tmp(<columns without server default>) FROM STDIN: every line becomes a
\* row with processed_at = now(); a line whose key is in tmp already violates
\* the primary key and the whole COPY fails
CopyRows(stg, bytes, now) ==
    IF (DOMAIN bytes) \cap (DOMAIN stg) # {}
       THEN [ok |-> FALSE, rows |-> stg]
       ELSE [ok |-> TRUE,
             rows |-> [k \in (DOMAIN stg) \cup (DOMAIN bytes) |->
                          IF k \in DOMAIN stg THEN stg[k]
                          ELSE [val |-> bytes[k], at |-> now]]]

\* an execute_csv_copy that re-raises the error of the COPY
AfterCopy_abort(ok) == IF ok THEN "record" ELSE "idle"

\* execute_csv_copy logs the error of the COPY, commits and returns
AfterCopy(ok) == StepAfter("copy")

\* execute_csv_copy(tmp_table, csv_file, conn): the COPY loads all lines or,
\* on a malformed line, a key that is staged already or a database error,
\* none; open() or commit() raising ends process_file in its except clause
ExecuteCsvCopy ==
    /\ run.pc = "copy"
    /\ \/ \E now \in Times :
             LET c == CopyRows(staging, run.file.bytes, now) IN
                /\ staging' = c.rows
                /\ run' = [run EXCEPT !.copy = IF c.ok THEN "ok" ELSE "failed",
                                      !.pc = AfterCopy(c.ok),
                                      !.outcome = IF AfterCopy(c.ok) = "idle"
                                                     THEN "FAILED" ELSE "none"]
       \/ /\ staging' = staging
          /\ run' = [run EXCEPT !.copy = "failed",
                                !.pc = AfterCopy(FALSE),
                                !.outcome = IF AfterCopy(FALSE) = "idle"
                                               THEN "FAILED" ELSE "none",
                                !.fault = TRUE]
       \/ /\ staging' = staging
          /\ run' = [run EXCEPT !.copy = "raised", !.pc = "idle", !.outcome = "FAILED",
                                !.fault = TRUE]
    /\ UNCHANGED <<manifest, target, seen, did, runs>>
    /\ UNCHANGED <<poolVars, ctorVars, scopeVars>>

\* an insert that reports success and stores nothing
ManifestInsert_lost(m, d) == [ok |-> TRUE, rows |-> m]

\* INSERT INTO manifest VALUES (file_name, digest, ...): digest is the primary key
ManifestInsert(m, d) ==
    IF d \in DOMAIN m
       THEN [ok |-> FALSE, rows |-> m]
       ELSE [ok |-> TRUE, rows |-> [e \in (DOMAIN m) \cup {d} |-> IF e = d THEN 1 ELSE m[e]]]

\* insert_to_table(manifest_table, ...): execute_write commits the insert, or
\* logs the error and rolls back; process_file goes on in both cases
InsertManifest ==
    /\ run.pc = "record"
    /\ \/ LET i == ManifestInsert(manifest, get_md5(run.file)) IN
             /\ manifest' = i.rows
             /\ run' = [run EXCEPT !.recorded = i.ok, !.pc = StepAfter("record")]
       \/ /\ manifest' = manifest
          /\ run' = [run EXCEPT !.pc = StepAfter("record"), !.fault = TRUE]
    /\ UNCHANGED <<staging, target, seen, did, runs>>
    /\ UNCHANGED <<poolVars, ctorVars, scopeVars>>

\* how a process_file call that reached the merge ends
Outcome(r, merged) ==
    IF r.copy = "ok" /\ r.recorded /\ merged THEN "DONE" ELSE "FAILED"

\* the rows a file has in the tmp table after its COPY
Staged(r, stg) ==
    IF r.copy = "ok" THEN [k \in DOMAIN r.file.bytes |-> stg[k]] ELSE << >>

\* merge_tables(tmp_table, target_table, conn): execute_write commits the
\* upsert, or logs the error and rolls back
MergeFile ==
    /\ run.pc = "merge"
    /\ \/ /\ target' = Merge(staging, target)
          /\ run' = [run EXCEPT !.merged = TRUE, !.pc = StepAfter("merge"),
                                !.outcome = Outcome(run, TRUE)]
       \/ /\ target' = target
          /\ run' = [run EXCEPT !.pc = StepAfter("merge"), !.outcome = Outcome(run, FALSE),
                                !.fault = TRUE,
                                !.lost = IF run.recorded THEN Staged(run, staging)
                                         ELSE run.lost]
    /\ UNCHANGED <<staging, manifest, seen, did, runs>>
    /\ UNCHANGED <<poolVars, ctorVars, scopeVars>>

NextFile ==
    \/ StartFile
    \/ CheckManifest
    \/ ExecuteCsvCopy
    \/ InsertManifest
    \/ MergeFile

SpecFile == InitFile /\ [][NextFile]_vars

\* the digest of the file being processed
Digest == get_md5(run.file)

\* C16: while a file is processed whose bytes the call before has recorded,
\* under the same path or another, Target does not change and the Manifest
\* keeps exactly one row for the digest
C16_DedupIdempotence ==
    /\ [](run.again => Digest \in DOMAIN manifest /\ manifest[Digest] = 1)
    /\ [][run'.again /\ run'.pc # "check" => target' = target]_vars

\* a file with rows was processed and recorded, and a file with the same
\* bytes under another path has been skipped after it; its rows are in Target
C16_Witness ==
    /\ run.pc = "idle"
    /\ run.again
    /\ run.moved
    /\ run.outcome = "SKIPPED"
    /\ DOMAIN run.file.bytes # {}
    /\ \A k \in DOMAIN run.file.bytes : k \in DOMAIN target

\* C17: a process_file call that finds the digest of its file in the Manifest
\* ends at the check and changes none of Staging, Manifest and Target
C17_SkippedWritesNothing ==
    [][(run.pc = "check" /\ Digest \in DOMAIN manifest /\ run' # run) =>
          /\ run'.pc = "idle"
          /\ run'.outcome \in {"SKIPPED", "RAISED"}
          /\ UNCHANGED <<staging, manifest, target>>]_vars

\* a file with rows has been skipped because its digest is in the Manifest
C17_Witness ==
    /\ run.pc = "idle"
    /\ run.outcome = "SKIPPED"
    /\ Digest \in DOMAIN manifest
    /\ DOMAIN run.file.bytes # {}
    /\ DOMAIN staging # {}

\* C20: when the bulk load of a file has failed, process_file has ended
\* there, with no Manifest row inserted and no merge executed (violated:
\* execute_csv_copy swallows the error of the COPY)
C20_LoadFailureAborts ==
    run.copy = "failed" => (run.pc = "idle" /\ ~run.recorded /\ ~run.merged)

\* C21: when the insert of the Manifest row has failed, the merge is not
\* executed and Target stays as it was (violated: execute_write swallows the
\* error of the insert, and process_file goes on to merge_tables)
C21_RecordFailureAborts ==
    [][(run.pc = "merge" /\ ~run.recorded) =>
          (~run'.merged /\ target' = target)]_vars

\* C22: when the digest query of a file fails, process_file ends there: no
\* bulk load, no Manifest insert and no merge is executed for the file, and
\* the failed check changes none of Staging, Manifest and Target
C22_ReadFailureFailsClosed ==
    /\ [](run.read = "failed" =>
             /\ run.pc = "idle"
             /\ run.copy = "none"
             /\ ~run.recorded
             /\ ~run.merged)
    /\ [][run'.read = "failed" => UNCHANGED <<staging, manifest, target>>]_vars

\* the digest query of a file with rows has failed while the Manifest has no
\* row for its digest: the file is still eligible
C22_Witness ==
    /\ run.read = "failed"
    /\ run.outcome = "RAISED"
    /\ DOMAIN run.file.bytes # {}
    /\ Digest \notin DOMAIN manifest

\* C23: the rows of a file whose merge failed after its Manifest row was
\* committed never reach Target: no later step puts one of them there
\* (violated: the rows stay in the tmp table, and the merge of the next file
\* carries them into Target)
C23_FailedMergeRowsStayOut ==
    [][\A k \in DOMAIN run.lost :
          (k \in DOMAIN target' /\ target'[k] = run.lost[k]) =>
             (k \in DOMAIN target /\ target[k] = run.lost[k])]_vars

\* C24 as stated: when process_file has ended, the load, the Manifest insert
\* and the merge of its file have all been committed or none has (violated:
\* each step commits on its own)
C24_PerFileAtomicity ==
    run.pc = "idle" =>
       /\ (run.copy = "ok") <=> run.recorded
       /\ run.recorded <=> run.merged

\* C24: each step of process_file is its own transaction: a step changes only
\* its own relation (the load Staging, the insert the Manifest, the merge
\* Target), and a step that fails changes nothing
C24_PerStepAtomicity ==
    [][/\ run.pc \in {"idle", "check"} => UNCHANGED <<staging, manifest, target>>
       /\ run.pc = "copy" =>
             /\ UNCHANGED <<manifest, target>>
             /\ run'.copy # "ok" => staging' = staging
       /\ run.pc = "record" =>
             /\ UNCHANGED <<staging, target>>
             /\ ~run'.recorded => manifest' = manifest
       /\ run.pc = "merge" =>
             /\ UNCHANGED <<staging, manifest>>
             /\ ~run'.merged => target' = target]_vars

\* a file's rows and its Manifest row are committed and its merge has failed
C24_Witness ==
    /\ run.pc = "idle"
    /\ run.copy = "ok"
    /\ DOMAIN run.file.bytes # {}
    /\ \A k \in DOMAIN run.file.bytes : k \in DOMAIN staging
    /\ run.recorded
    /\ Digest \in DOMAIN manifest
    /\ ~run.merged

\* C25: from the successful load of a file until its merge has run, Staging
\* holds exactly the rows of that file (violated: the tmp table is never
\* emptied, so the rows of earlier files are still there)
C25_StagingHoldsOneFile ==
    (run.copy = "ok" /\ run.pc \in {"record", "merge"}) =>
       /\ DOMAIN staging = DOMAIN run.file.bytes
       /\ \A k \in DOMAIN staging : staging[k].val = run.file.bytes[k]

\* ======================================================================
\* the concrete scenario: files A, A, B and C for the entity "order"
\* ======================================================================
\* file A: order_id 1 with status PENDING
FileA == [path |-> "a.csv", bytes |-> (1 :> "PENDING")]

\* file B: order_id 1 with status SHIPPED
FileB == [path |-> "b.csv", bytes |-> (1 :> "SHIPPED")]

\* file C: order_id 1 with status CANCELLED
FileC == [path |-> "c.csv", bytes |-> (1 :> "CANCELLED")]

\* the four deliveries, in order
Scenario == <<FileA, FileA, FileB, FileC>>

\* empty tmp, manifest and target tables
InitScenario ==
    /\ PoolAtRest
    /\ staging = << >>
    /\ manifest = << >>
    /\ target = << >>
    /\ seen = [k \in Keys |-> {}]
    /\ did = {}
    /\ run = NoRun
    /\ runs = 0

\* on_created hands the next file of the scenario to process_file
StartScenario ==
    /\ run.pc = "idle"
    /\ runs < Len(Scenario)
    /\ runs' = runs + 1
    /\ run' = [NoRun EXCEPT !.pc = "check",
                            !.file = Scenario[runs + 1],
                            !.again = (runs > 0 /\ run.recorded
                                         /\ get_md5(run.file) = get_md5(Scenario[runs + 1])),
                            !.moved = (run.file.path # Scenario[runs + 1].path),
                            !.lost = run.lost,
                            !.fault = run.fault]
    /\ UNCHANGED <<staging, manifest, target, seen, did>>
    /\ UNCHANGED <<poolVars, ctorVars, scopeVars>>

NextScenario ==
    \/ StartScenario
    \/ CheckManifest
    \/ ExecuteCsvCopy
    \/ InsertManifest
    \/ MergeFile

SpecScenario == InitScenario /\ [][NextScenario]_vars

\* the status Target holds for order_id 1
StatusInTarget == IF 1 \in DOMAIN target THEN target[1].val ELSE "absent"

\* C26: with no failure of the database or the file system, Target holds
\* order_id 1 as PENDING after the first and the second run and as SHIPPED
\* after the third and the fourth (violated: the COPY of file B fails on the
\* primary key of the tmp table, which still holds the row of file A)
C26_ConcreteScenario ==
    (run.pc = "idle" /\ ~run.fault) =>
       /\ runs \in {1, 2} => StatusInTarget = "PENDING"
       /\ runs \in {3, 4} => StatusInTarget = "SHIPPED"

\* ======================================================================
\* Daemon.run / OrderDaemon.run: the Observer, its dispatcher, an interrupt
\* ======================================================================
\* the thread of the Observer, which dispatches the events to on_created
Dispatcher == 1

\* the file-creation events of the watched directory, in order of arrival
Events == 1..MaxEvents

\* run(processor, db_conn) sets up the tables, schedules the handler (kind
\* "data": Daemon with DataEventHandler, "order": OrderDaemon with
\* OrderEventHandler), starts the Observer and sleeps
Run(k) ==
    /\ daemon.main = "none"
    /\ daemon' = [NoDaemon EXCEPT !.kind = k, !.main = "sleep", !.thread = "running"]
    /\ UNCHANGED <<scope, poolVars, ctorVars, fileVars>>

\* the emitter of the watch queues a creation event that matches *.csv
Arrive ==
    /\ daemon.main # "none"
    /\ ~daemon.stopped
    /\ daemon.arrived < MaxEvents
    /\ daemon' = [daemon EXCEPT !.arrived = @ + 1,
                                !.queue = Append(@, daemon.arrived + 1)]
    /\ UNCHANGED <<scope, poolVars, ctorVars, fileVars>>

\* a dispatcher that takes the newest event first
NextEvent_last(q) == q[Len(q)]

\* event_queue.get(): the queue is first in, first out
NextEvent(q) == Head(q)

\* the queue without the event taken
Rest(q, e) == SelectSeq(q, LAMBDA x : x # e)

\* the dispatcher takes an event from the queue and calls on_created, which
\* starts with get_connection()
Dispatch ==
    /\ daemon.thread = "running"
    /\ ~daemon.stopped
    /\ daemon.cur = 0
    /\ daemon.queue # << >>
    /\ BeginScope(Dispatcher, daemon.kind)
    /\ daemon' = [daemon EXCEPT !.cur = NextEvent(daemon.queue),
                                !.queue = Rest(@, NextEvent(daemon.queue)),
                                !.started = Append(@, NextEvent(daemon.queue))]
    /\ UNCHANGED <<ctorVars, fileVars>>

\* the dispatcher thread after on_created: an exception that escapes the
\* handler ends the thread, which has no except clause around the dispatch
AfterHandler(exc) == IF exc = "none" THEN "running" ELSE "died"

\* on_created has returned or raised: control is back in the dispatch loop
HandlerEnds ==
    /\ daemon.cur # 0
    /\ pc[Dispatcher] = "idle"
    /\ scope[Dispatcher].phase = "done"
    /\ daemon' = [daemon EXCEPT !.cur = 0,
                                !.finished = Append(@, daemon.cur),
                                !.thread = AfterHandler(scope[Dispatcher].exc)]
    /\ UNCHANGED <<scope, poolVars, ctorVars, fileVars>>

\* the dispatch loop finds the stop event set and the thread ends
LoopExit ==
    /\ daemon.thread = "running"
    /\ daemon.stopped
    /\ daemon.cur = 0
    /\ daemon' = [daemon EXCEPT !.thread = "ended"]
    /\ UNCHANGED <<scope, poolVars, ctorVars, fileVars>>

\* the host process is interrupted: time.sleep raises KeyboardInterrupt
Interrupt ==
    /\ daemon.main = "sleep"
    /\ daemon' = [daemon EXCEPT !.main = "except", !.inflight = daemon.cur]
    /\ UNCHANGED <<scope, poolVars, ctorVars, fileVars>>

\* except KeyboardInterrupt: self.observer.stop()
ObserverStop ==
    /\ daemon.main = "except"
    /\ daemon' = [daemon EXCEPT !.main = "finally", !.stopped = TRUE]
    /\ UNCHANGED <<scope, poolVars, ctorVars, fileVars>>

\* a join that does not wait for the thread
JoinReturns_nowait(thread) == TRUE

\* Thread.join() returns once the thread has ended
JoinReturns(thread) == thread \in {"died", "ended"}

\* finally: self.observer.join(); then run() returns
ObserverJoin ==
    /\ daemon.main = "finally"
    /\ JoinReturns(daemon.thread)
    /\ daemon' = [daemon EXCEPT !.main = "returned"]
    /\ UNCHANGED <<scope, poolVars, ctorVars, fileVars>>

\* the steps inside get_connection() and release_connection() of the handler;
\* the dispatcher is the only user of the pool, so a permit is always free
DispatcherStep ==
    \/ GcCheck(Dispatcher)
    \/ GcAcquire(Dispatcher)
    \/ GcLoad(Dispatcher)
    \/ GcDraw(Dispatcher)
    \/ GcExcept(Dispatcher)
    \/ RcCheck(Dispatcher)
    \/ RcLoad(Dispatcher)
    \/ RcPut(Dispatcher)
    \/ RcFinally(Dispatcher)

NextDaemon ==
    \/ \E k \in {"data", "order"} : Run(k)
    \/ Arrive
    \/ Dispatch
    \/ EnterFailed(Dispatcher)
    \/ Body(Dispatcher)
    \/ Leave(Dispatcher)
    \/ DispatcherStep
    \/ HandlerEnds
    \/ LoopExit
    \/ Interrupt
    \/ ObserverStop
    \/ ObserverJoin

SpecDaemon == Init /\ [][NextDaemon]_vars

\* C27: no failure while an event is handled escapes on_created, so the
\* dispatcher thread never ends on an exception and later events are still
\* handled (violated for OrderEventHandler: when get_connection() raises, the
\* finally clause reads the unbound conn; an error of release_connection()
\* raised in the finally clause escapes too)
C27_FailureIsolation ==
    /\ daemon.thread # "died"
    /\ (daemon.cur # 0 /\ scope[Dispatcher].phase = "done") =>
          scope[Dispatcher].exc = "none"

\* the dispatcher is inside on_created
Handling == scope[Dispatcher].phase \in {"enter", "exit"}

C29_ShutdownClosesPool ==
    daemon.main = "returned" =>
       /\ daemon.stopped
       /\ daemon.thread \in {"died", "ended"}
       /\ self_pool = "None"
       /\ pool.closed

\* C30: once observer.stop() has run no further event is handed to
\* on_created, and run() returns only when the dispatcher is outside
\* on_created: an event that was being handled when the interrupt came has
\* been handled to its end and the dispatcher holds no connection
C30_Cancellation ==
    /\ [](daemon.main = "returned" =>
             /\ ~Handling
             /\ daemon.cur = 0
             /\ pc[Dispatcher] = "idle"
             /\ held[Dispatcher] = NoConn
             /\ daemon.inflight # 0 =>
                   \E i \in 1..Len(daemon.finished) : daemon.finished[i] = daemon.inflight)
    /\ [][daemon.stopped => daemon'.started = daemon.started]_vars

\* run() has returned after an interrupt that came while the dispatcher held
\* a connection for an event, and process_file has ended for that event
C30_Witness ==
    /\ daemon.main = "returned"
    /\ daemon.inflight # 0
    /\ daemon.inflight = daemon.started[Len(daemon.started)]
    /\ scope[Dispatcher].acquired
    /\ scope[Dispatcher].body = "returned"
    /\ held[Dispatcher] = NoConn
    /\ daemon.queue # << >>

\* C31: the Manifest only grows, by one row per digest, and a row is inserted
\* for a digest only when the file with that digest was staged successfully
\* (violated: the row is inserted also after a COPY that failed)
C31_ManifestAppendOnly ==
    [][/\ \A d \in DOMAIN manifest : d \in DOMAIN manifest' /\ manifest'[d] = manifest[d]
       /\ \A d \in DOMAIN manifest' : manifest'[d] = 1
       /\ manifest' # manifest =>
             /\ DOMAIN manifest' = (DOMAIN manifest) \cup {Digest}
             /\ run.copy = "ok"]_vars

\* the step of process_file that a position follows
StepOf(p) ==
    CASE p = "check" -> 1
      [] p = "copy" -> 2
      [] p = "record" -> 3
      [] p = "merge" -> 4
      [] p = "idle" -> 5

\* C32: a file that is not skipped goes through digest, check, load, insert
\* and merge in this order: the Manifest changes only in the insert step,
\* after the load was attempted, and Target changes only in the merge step,
\* after the insert was attempted
C32_StepOrder ==
    [][/\ run'.pc # "check" => StepOf(run'.pc) > StepOf(run.pc)
       /\ run'.pc = "record" => run.pc = "copy" /\ run'.copy \in {"ok", "failed"}
       /\ run'.pc = "merge" => run.pc = "record"
       /\ manifest' # manifest => run.pc = "record" /\ run.copy # "none" /\ ~run.merged
       /\ target' # target => run.pc = "merge" /\ run.copy # "none"
       /\ staging' # staging => run.pc = "copy" /\ run.read = "ok" /\ ~run.recorded]_vars

\* a file has gone through all steps: staged, recorded and merged
C32_Witness ==
    /\ run.pc = "idle"
    /\ run.outcome = "DONE"
    /\ DOMAIN run.file.bytes # {}
    /\ Digest \in DOMAIN manifest
    /\ \A k \in DOMAIN run.file.bytes : k \in DOMAIN staging /\ k \in DOMAIN target

\* C33: a process_file call that has ended has ended in one of SKIPPED, DONE
\* and FAILED, with no exception propagated to its caller (violated: after a
\* failed digest query results[0] raises TypeError outside the try block)
C33_EndsInTerminalState ==
    (run.pc = "idle" /\ runs > 0) => run.outcome \in {"SKIPPED", "DONE", "FAILED"}

\* ======================================================================
\* restart of the pipeline: set_up_tables
\* ======================================================================
\* a call that passes given positional arguments to a method with params
\* required parameters besides self
Call(params, given) == IF given = params THEN "ok" ELSE "TypeError"

\* PostgresManager.drop_table(self, table_metadata, engine), called by
\* set_up_tables as drop_table(tmp_metadata): drop_all empties the tmp table
\* when the call is well-formed
drop_table(stg) ==
    IF Call(2, 1) = "ok" THEN [result |-> "ok", rows |-> << >>]
    ELSE [result |-> "TypeError", rows |-> stg]

\* the pipeline is started again: Daemon.run calls processor.set_up_tables()
\* before it starts the Observer; an exception of set_up_tables leaves run()
\* and no file is processed (pc "down"); create_all keeps existing tables
SetUpTables ==
    /\ run.pc = "idle"
    /\ runs > 0
    /\ LET dropped == drop_table(staging) IN
          /\ staging' = dropped.rows
          /\ run' = [run EXCEPT !.pc = IF dropped.result = "ok" THEN "idle" ELSE "down"]
    /\ UNCHANGED <<manifest, target, seen, did, runs>>
    /\ UNCHANGED <<poolVars, ctorVars, scopeVars>>

NextRestart ==
    \/ NextFile
    \/ SetUpTables

SpecRestart == InitFile /\ [][NextRestart]_vars

\* C34: a restart leaves Staging empty and the Manifest and Target as they
\* were, and the pipeline is ready for files again, so that a file that was
\* DONE before is checked against the Manifest (violated: set_up_tables
\* calls drop_table without its engine argument and raises TypeError)
C34_RestartKeepsGuard ==
    [][SetUpTables =>
          /\ staging' = << >>
          /\ manifest' = manifest
          /\ target' = target
          /\ run'.pc = "idle"]_vars

\* ======================================================================
\* worker threads that each open one ManagedConnection scope
\* ======================================================================
\* a worker enters its with-block; it does so once
EnterOnce(t) ==
    /\ scope[t].phase = "none"
    /\ Enter(t, "with")

\* the steps of worker t
WorkerStep(t) ==
    \/ EnterOnce(t)
    \/ EnterFailed(t)
    \/ Body(t)
    \/ Leave(t)
    \/ PoolStep(t)

NextWorkers == \E t \in Threads : WorkerStep(t)

SpecWorkers == Init /\ [][NextWorkers]_vars

\* every started thread keeps being scheduled: a step of a worker that stays
\* possible is taken
FairWorkers == SpecWorkers /\ \A t \in Threads : WF_vars(WorkerStep(t))

\* errors that come from the database server or from the work in the body
DbErrors == {"OperationalError", "RollbackError", "Exception"}

\* the database has failed a connect, a rollback or a statement of a body
DbFailed ==
    \E t \in Threads :
        \/ err[t] \in DbErrors
        \/ res[t] \in DbErrors
        \/ scope[t].exc \in DbErrors
        \/ scope[t].rel \in DbErrors
        \/ scope[t].body = "Exception"

\* C35: as long as the database does not fail, every worker eventually
\* leaves its scope having obtained a connection and without an error, also
\* when there are more workers than max_conn
C35_NoStarvation ==
    ([]~DbFailed) =>
       \A t \in Threads : <>(Left(t) /\ Acquired(t) /\ scope[t].exc = "none")

\* with one permit, a worker that found no permit free has obtained a
\* connection after another worker has left its scope without an error
C35_Witness ==
    /\ N < NumThreads
    /\ ~DbFailed
    /\ \E t, u \in Threads :
          /\ t # u
          /\ blocked[t] /\ held[t] # NoConn /\ scope[t].phase = "enter"
          /\ Left(u) /\ Acquired(u) /\ scope[u].exc = "none"

\* ---------------------------------------------------------------------------
\* The legacy OrderProcessor (processors/order.py).  Its process_file calls the
\* same execute_read, execute_csv_copy, insert_to_table and merge_tables; only
\* the test on the result of the dedup read differs.

\* what execute_read hands back for the scalar EXISTS query: the fetched row,
\* or None when the statement raised (the error is logged, nothing is returned)
execute_read(m, d, works) ==
    IF works THEN [none |-> FALSE, row |-> <<d \in DOMAIN m>>]
    ELSE [none |-> TRUE, row |-> << >>]

\* Python's truth value of results: None is false, a fetched row of one
\* column is a non-empty sequence and so true
Truth(results) == ~results.none /\ Len(results.row) > 0

\* "if results is not None: log error / elif not results: process /
\* else: Batch already processed"
LegacyBranch(results) ==
    IF ~results.none THEN "error"
    ELSE IF ~Truth(results) THEN "process"
    ELSE "already"

\* OrderProcessor.process_file up to its try block
LegacyCheck ==
    /\ run.pc = "check"
    /\ \E works \in BOOLEAN :
          LET results == execute_read(manifest, get_md5(run.file), works)
              branch == LegacyBranch(results)
          IN  run' = [run EXCEPT !.read = IF works THEN "ok" ELSE "failed",
                                 !.fault = ~works,
                                 !.pc = IF branch = "process" THEN "copy" ELSE "idle",
                                 !.outcome = CASE branch = "process" -> "none"
                                               [] branch = "already" -> "SKIPPED"
                                               [] branch = "error" -> "ERROR_LOGGED"]
    /\ UNCHANGED <<staging, manifest, target, seen, did, runs>>
    /\ UNCHANGED <<poolVars, ctorVars, scopeVars>>

NextLegacy ==
    \/ StartFile
    \/ LegacyCheck
    \/ ExecuteCsvCopy
    \/ InsertManifest
    \/ MergeFile

SpecLegacy == InitFile /\ [][NextLegacy]_vars

\* C36: the legacy process_file goes on to the bulk load, the Manifest insert
\* and the merge exactly when the dedup read succeeded and did not find the
\* digest; when the digest is found the batch is reported as already
\* processed, and when the read fails nothing is processed.
C36_LegacyGuard ==
    [][LegacyCheck =>
          LET found == get_md5(run.file) \in DOMAIN manifest IN
             /\ (run'.pc = "copy") <=> (run'.read = "ok" /\ ~found)
             /\ (run'.read = "ok" /\ found) => run'.outcome = "SKIPPED"
             /\ (run'.read = "failed") => run'.pc = "idle"]_vars

\* ---------------------------------------------------------------------------
\* Callers that do not keep to one release per acquired connection.

\* release_connection(conn) with a connection the caller has released
\* before: it kept the reference.  The object may meanwhile be idle in the
\* pool, closed, or drawn again by another caller.  No further stale release
\* is started once the semaphore holds a surplus permit, which keeps the
\* counter finite.
CallReleaseAgain(t) ==
    /\ pc[t] = "idle"
    /\ held[t] = NoConn
    /\ op[t] = "release"
    /\ res[t] = "ok"
    /\ semaphore <= pool.maxconn
    /\ \E c \in ConnIds : held' = [held EXCEPT ![t] = c]
    /\ pc' = [pc EXCEPT ![t] = "rc_check"]
    /\ net' = [net EXCEPT ![t] = 0]
    /\ err' = [err EXCEPT ![t] = "none"]
    /\ res' = [res EXCEPT ![t] = "none"]
    /\ blocked' = [blocked EXCEPT ![t] = FALSE]
    /\ UNCHANGED <<self_pool, self_initialized, semaphore, lock, pool, op, closers>>
    /\ UNCHANGED <<ctorVars, scopeVars, fileVars>>

\* get_connection and release_connection on a pool that nobody closes
NextMisuse ==
    \E t \in Threads :
        \/ GetConnection(t)
        \/ ReleaseConnection(t)
        \/ CallReleaseAgain(t)

SpecMisuse == Init /\ [][NextMisuse]_vars

\* C37: permit bound.  Whatever the callers do, releasing a connection twice
\* included, the semaphore never holds more than max_conn permits.
C37_PermitBound == semaphore <= N

\* ---------------------------------------------------------------------------
\* Well-behaved callers on a live pool: every caller releases the connection
\* it got, once, and nobody closes the pool.
NextLive ==
    \E t \in Threads :
        \/ GetConnection(t)
        \/ ReleaseConnection(t)

SpecLive == Init /\ [][NextLive]_vars

\* no call of the pool is in progress
BetweenCalls == \A t \in Threads : pc[t] = "idle"

\* a release_connection() whose putconn() raised has returned
PutFailed(t) == Returned(t, "release") /\ res[t] \in {"RollbackError", "PoolUnkeyed"}

\* C38: permit conservation.  On a live pool whose callers release each
\* connection once, the free permits and the connections held by callers add
\* up to max_conn between calls, and inside a call the caller that has taken a
\* permit and not yet a connection accounts for the difference; this is so
\* after a get_connection() whose draw failed and after a
\* release_connection() whose putconn() failed as well.
C38_PermitConservation ==
    /\ PoolLive
    /\ semaphore + Cardinality(Holders) + Cardinality(InDraw \ Holders) = N
    /\ BetweenCalls => semaphore + Cardinality(Holders) = N

\* between calls, after a failed draw and a failed return, a caller holds a
\* connection and the remaining permits are free
C38_Witness ==
    /\ BetweenCalls
    /\ \E t, u \in Threads :
          /\ PutFailed(t)
          /\ held[u] # NoConn
          /\ semaphore = N - 1
    /\ pool.used # Range(held) \ {NoConn}

\* C39: release on a closed pool.  A release_connection(conn) that finds the
\* pool closed (close_pool() has set self._pool to None) returns without an
\* exception, leaves the underlying pool and the semaphore as they are and the
\* pool closed.
C39_ReleaseOnClosedPool ==
    [][\A t \in Threads :
          (pc[t] = "rc_check" /\ pc'[t] # "rc_check" /\ self_pool = "None")
             => /\ pc'[t] = "idle"
                /\ res'[t] = "ok"
                /\ net'[t] = 0
                /\ pool' = pool
                /\ semaphore' = semaphore
                /\ self_pool' = "None"
                /\ self_initialized' = self_initialized]_vars

\* close_pool() has returned while a caller held a connection; its release
\* has returned normally, the permit is still taken and the closed pool still
\* lists the connection as handed out
C39_Witness ==
    \E t, u \in Threads :
        /\ Returned(u, "close") /\ res[u] = "ok"
        /\ Returned(t, "release") /\ res[t] = "ok" /\ net[t] = 0
        /\ self_pool = "None"
        /\ pool.closed
        /\ pool.used # {}
        /\ semaphore = N - 1

\* ---------------------------------------------------------------------------
\* Closing the pool and constructing PostgresDB(...) again.  One thread owns
\* the pool, as the main thread of Daemon.run does: it alone constructs, asks
\* for the instance and closes, and it closes and constructs while no other
\* call is in progress.  Every thread gets and releases connections, in any
\* interleaving, and may hold a connection across the close.

\* the thread that owns the pool
Owner == 1

\* positions inside PostgresDB(...)
CtorPcs == {"new_check", "new_lock", "new_inner", "new_unlock", "init_check",
            "init_store", "init_sem", "init_pool", "init_flag"}

\* no other thread is inside a call
Alone(t) == \A u \in Threads \ {t} : pc[u] = "idle"

\* nobody is inside close_pool() or PostgresDB(...)
NoMaintenance == \A u \in Threads : pc[u] \notin CpPcs \cup CtorPcs

\* PostgresDB(...) on the existing instance: __new__ returns it, __init__
\* initialises it again if close_pool() has reset _initialized
Reconstruct(t) ==
    \/ /\ created.pools < MaxOpens
       /\ CallCtor(t)
    \/ NewCheck(t)
    \/ InitCheck(t)
    \/ InitStore(t)
    \/ InitSem(t)
    \/ InitPool(t)
    \/ InitFlag(t)

NextReopen ==
    \/ \E t \in Threads :
          \/ NoMaintenance /\ GetConnection(t)
          \/ NoMaintenance /\ ReleaseConnection(t)
    \/ Alone(Owner) /\ ClosePool(Owner)
    \/ Alone(Owner) /\ Reconstruct(Owner)
    \/ GetInstance(Owner)

SpecReopen == Init /\ [][NextReopen]_vars

\* an underlying pool has been installed after the first one
Reopened == created.pools > 1

\* C40: re-initialisation after close.  A PostgresDB(...) call that finds the
\* instance closed gets the same singleton and initialises it again: when it
\* returns, a new open pool and a new semaphore with the max_conn of its own
\* arguments are installed; get_connection() then passes the check of the
\* pool and draws the idle connection of the new pool; and get_instance()
\* on the closed, not re-constructed pool returns the closed singleton and
\* changes nothing.
C40_ReInitialisation ==
    /\ [](cls_instance = 1 /\ created.instances = 1)
    /\ [][\A t \in Threads :
            /\ (pc[t] = "init_check" /\ pc'[t] # "init_check" /\ ~self_initialized)
                  => /\ pc'[t] = "init_store"
                     /\ ret[t] = cls_instance
            /\ (pc[t] = "init_flag" /\ pc'[t] = "idle")
                  => /\ res'[t] = "ok"
                     /\ ret'[t] = cls_instance
                     /\ self_initialized'
                     /\ self_pool' = "pool"
                     /\ ~pool'.closed
                     /\ pool'.used = {}
                     /\ Range(pool'.free) \cap Range(held') = {}
                     /\ pool'.maxconn = args[t].max_conn
                     /\ semaphore' = Semaphore(args[t].max_conn)
                     /\ details' = args[t].dbname
            /\ (pc[t] = "gc_check" /\ pc'[t] # "gc_check" /\ Reopened /\ self_pool = "pool")
                  => pc'[t] = "gc_acquire"
            /\ (pc[t] = "gc_draw" /\ pc'[t] # "gc_draw" /\ Reopened /\ PoolLive
                   /\ Len(pool.free) > 0)
                  => /\ pc'[t] = "idle"
                     /\ res'[t] = "conn"
                     /\ held'[t] \in Range(pool.free)
            /\ (GetInstanceStep(t) /\ self_pool = "None")
                  => /\ res'[t] = "ok"
                     /\ ret'[t] = cls_instance
                     /\ self_pool' = "None"
                     /\ self_initialized' = self_initialized
                     /\ pool' = pool]_vars

\* the pool was closed and constructed again with another max_conn, and a
\* caller has got a connection of the new pool
C40_Witness ==
    /\ Reopened
    /\ closers > 0
    /\ PoolLive
    /\ \E t, u \in Threads :
          /\ Returned(u, "construct") /\ res[u] = "ok"
          /\ pool.maxconn = args[u].max_conn
          /\ Returned(t, "get") /\ res[t] = "conn"
          /\ held[t] \in pool.used

====
